---- MODULE Spec2Model ----
(***************************************************************************)
(* Model of lustre/utils/mount_utils_zfs.c: the bridge between the Lustre  *)
(* disk data (struct lustre_disk_data) and the user properties of a ZFS    *)
(* dataset.                                                                *)
(*                                                                         *)
(* Texts (C strings, property names and values) are sequences of atoms.    *)
(* An atom is a TLA+ string that stands for a run of characters holding    *)
(* neither ' ' nor '=': "a", "b", "version", "failover.node", or the       *)
(* decimal digits of a number.  " " and "=" are atoms of their own, so     *)
(* strtok_r(.., " ") and strtok(.., "=") split a text as the C code does.  *)
(***************************************************************************)
EXTENDS Integers, Sequences, FiniteSets, TLC

\* ------------------------------------------------------------------ bounds
\* width of __u32 / int in the model (32 in the program)
IntBits == 6
\* longest parameter blob, in tokens
MaxTokens == 2
\* the count of open dataset handles saturates here
MaxLeak == 1
\* the count of loop iterations of zfs_set_prop_params saturates at
\* MaxTokens + ExtraIters
ExtraIters == 2
\* capacity of the ldd_params buffer, in atoms (4096 bytes in the program)
ParamsCap == 9

\* --------------------------------------------------------------- constants
EINVAL == 22
ENOENT == 2
ENOMEM == 12
ENOSYS == 38
ERANGE == 34
EACCES == 13
EOF == -1
LDD_MT_ZFS == 5
LDD_F_NEED_INDEX == 16
\* what zfs_prop_set(), zfs_destroy() and a failed command return
LIBZFS_FAIL == -1

TwoToBits == 2 ^ IntBits
SignBit == 2 ^ (IntBits - 1)
\* unsigned long is twice as wide as __u32
ULONG_LIMIT == 2 ^ (2 * IntBits)


\* ------------------------------------------------------------ names, texts
LDD_PREFIX == <<"lustre:">>
LDD_VERSION_PROP == LDD_PREFIX \o <<"version">>
LDD_FLAGS_PROP == LDD_PREFIX \o <<"flags">>
LDD_INDEX_PROP == LDD_PREFIX \o <<"index">>
LDD_FSNAME_PROP == LDD_PREFIX \o <<"fsname">>
LDD_SVNAME_PROP == LDD_PREFIX \o <<"svname">>
LDD_UUID_PROP == LDD_PREFIX \o <<"uuid">>
LDD_USERDATA_PROP == LDD_PREFIX \o <<"userdata">>
LDD_MOUNTOPTS_PROP == LDD_PREFIX \o <<"mountopts">>
PARAM_FAILNODE == <<"failover.node", "=">>

\* struct zfs_ldd_prop_bridge special_ldd_prop_params[], without the sentinel
special_ldd_prop_params ==
  << [zlpb_prop_name |-> LDD_VERSION_PROP, zlpb_ldd_offset |-> "ldd_config_ver", type |-> "int"],
     [zlpb_prop_name |-> LDD_FLAGS_PROP, zlpb_ldd_offset |-> "ldd_flags", type |-> "int"],
     [zlpb_prop_name |-> LDD_INDEX_PROP, zlpb_ldd_offset |-> "ldd_svindex", type |-> "int"],
     [zlpb_prop_name |-> LDD_FSNAME_PROP, zlpb_ldd_offset |-> "ldd_fsname", type |-> "str"],
     [zlpb_prop_name |-> LDD_SVNAME_PROP, zlpb_ldd_offset |-> "ldd_svname", type |-> "str"],
     [zlpb_prop_name |-> LDD_UUID_PROP, zlpb_ldd_offset |-> "ldd_uuid", type |-> "str"],
     [zlpb_prop_name |-> LDD_USERDATA_PROP, zlpb_ldd_offset |-> "ldd_userdata", type |-> "str"],
     [zlpb_prop_name |-> LDD_MOUNTOPTS_PROP, zlpb_ldd_offset |-> "ldd_mount_opts", type |-> "str"] >>

NBridge == Len(special_ldd_prop_params)
SpecialNames == {special_ldd_prop_params[i].zlpb_prop_name : i \in 1..NBridge}

\* snprintf(str, .., "%i", *(int *)val): the decimal digits of the field read
\* as a signed int
FormatInt(v) == <<ToString(IF v >= SignBit THEN v - TwoToBits ELSE v)>>

\* the numbers whose digits the model's texts can hold
DecRange == (-SignBit .. TwoToBits - 1) \cup {ULONG_LIMIT, -ULONG_LIMIT}
Digits == {ToString(n) : n \in DecRange}
Value == [t \in Digits |-> CHOOSE n \in DecRange : ToString(n) = t]
IsDigits(atom) == atom \in Digits
ValueOf(atom) == Value[atom]

\* strtoul(propstr, NULL, 10) and the store through (__u32 *): a text that
\* begins with no number converts to 0 without an error, a negative number
\* is negated as an unsigned long, a number out of range gives ULONG_MAX and
\* ERANGE; the store keeps the low IntBits bits.
strtoul(t) ==
  IF t = <<>> \/ ~IsDigits(t[1]) THEN [val |-> 0, errno |-> 0]
  ELSE LET n == ValueOf(t[1]) IN
       IF n >= ULONG_LIMIT \/ n <= -ULONG_LIMIT
       THEN [val |-> TwoToBits - 1, errno |-> ERANGE]
       ELSE [val |-> n % TwoToBits, errno |-> 0]

\* p with property name set to val
SetProp(p, name, val) ==
  [n \in DOMAIN p \cup {name} |-> IF n = name THEN val ELSE p[n]]

\* strstr(hay, needle) != NULL
RECURSIVE strstr(_, _)
strstr(hay, needle) ==
  IF Len(hay) < Len(needle) THEN FALSE
  ELSE IF SubSeq(hay, 1, Len(needle)) = needle THEN TRUE
  ELSE strstr(Tail(hay), needle)

RECURSIVE SkipDelim(_, _)
SkipDelim(s, d) ==
  IF s # <<>> /\ Head(s) = d THEN SkipDelim(Tail(s), d) ELSE s

RECURSIVE TokLen(_, _)
TokLen(s, d) ==
  IF s = <<>> \/ Head(s) = d THEN 0 ELSE 1 + TokLen(Tail(s), d)

\* strtok_r(s, d, &save) and strtok(s, d): skip the leading delimiters, cut
\* the token at the next delimiter, keep what follows it for the next call.
\* end is the place of the token's last atom in s.
strtok_r(s, d) ==
  LET t == SkipDelim(s, d)
      n == TokLen(t, d)
  IN IF t = <<>>
     THEN [nil |-> TRUE, tok |-> <<>>, save |-> <<>>, end |-> Len(s)]
     ELSE [nil |-> FALSE, tok |-> SubSeq(t, 1, n),
           save |-> IF n + 2 <= Len(t) THEN SubSeq(t, n + 2, Len(t)) ELSE <<>>,
           end |-> Len(s) - Len(t) + n]

\* ------------------------------------------------------------------ inputs
\* the well formed tokens a parameter blob is made of: one of them the
\* failover-node option, one whose key is a bridge entry's name
TokenSet ==
  { <<"a", "=", "b">>, <<"failover.node", "=", "b">>, <<"version", "=", "b">> }

\* the malformed tokens: no value after '=', no '=', no key before '=',
\* nothing but '='
OddTokens == { <<"a", "=">>, <<"a">>, <<"=", "b">>, <<"=">> }

RECURSIVE JoinTokens(_)
JoinTokens(ts) ==
  IF ts = <<>> THEN <<>>
  ELSE IF Len(ts) = 1 THEN ts[1]
  ELSE ts[1] \o <<" ">> \o JoinTokens(Tail(ts))

\* the parameter blobs: up to MaxTokens different tokens with a space
\* between them, and each odd token alone, and once before a well formed
\* token
Blobs ==
  {JoinTokens(ts) : ts \in {q \in UNION {[1..n -> TokenSet] : n \in 0..MaxTokens} :
                              \A i, j \in 1..Len(q) : q[i] = q[j] => i = j}}
  \cup OddTokens
  \cup {<<"a", " ", "a", "=", "b">>}

Ldd(ver, flags, index, fsname, svname, uuid, userdata, mountopts, params, mt) ==
  [ldd_config_ver |-> ver, ldd_flags |-> flags, ldd_svindex |-> index,
   ldd_fsname |-> fsname, ldd_svname |-> svname, ldd_uuid |-> uuid,
   ldd_userdata |-> userdata, ldd_mount_opts |-> mountopts,
   ldd_params |-> params, ldd_mount_type |-> mt]

\* the records the callers write
LddInputs ==
  { Ldd(1, 0, 0, <<"fs1">>, <<"sv1">>, <<>>, <<>>, <<"mo1">>, b, LDD_MT_ZFS) : b \in Blobs }
  \cup
  { Ldd(SignBit, LDD_F_NEED_INDEX, TwoToBits - 1, <<>>, <<>>, <<"uu2">>, <<"ud2">>, <<>>, <<>>, LDD_MT_ZFS),
    Ldd(0, 1, 1, <<"fs3">>, <<"sv3">>, <<"uu3">>, <<>>, <<>>, <<"a", "=", "b">>, 1) }

\* what a record holds before it is read into: zeroes (a caller that
\* cleared it) or whatever was there
LddPriors ==
  { Ldd(0, 0, 0, <<>>, <<>>, <<>>, <<>>, <<>>, <<>>, 0),
    Ldd(3, 2, 1, <<"x">>, <<"y">>, <<"x">>, <<"y">>, <<"x">>, <<"x", "=", "y">>, 1) }

NoLdd == Ldd(0, 0, 0, <<>>, <<>>, <<>>, <<>>, <<>>, <<>>, 0)

HasFailnode(ldd) == strstr(ldd.ldd_params, PARAM_FAILNODE)

\* the options one run of the utility works on: the record and the flags
Mops ==
  { [mo_ldd |-> ldd, mo_flags |-> {}] : ldd \in LddInputs }
  \cup
  { [mo_ldd |-> ldd, mo_flags |-> {"MO_NOHOSTID_CHECK"}] :
      ldd \in {l \in LddInputs : HasFailnode(l)} }
  \cup
  { [mo_ldd |-> ldd, mo_flags |-> {"MO_FORCEFORMAT"}] :
      ldd \in {l \in LddInputs : l.ldd_params = <<>>} }

\* the host's spl_hostid parameter and /etc/hostid, as the reads of
\* zfs_check_hostid find them:
\*   spl_errno: errno of fopen(spl_hostid), 0 when it opens
\*   spl_rc:    what fscanf returns; spl_val: the number it converted
\*   etc_open:  whether fopen(HOSTID_PATH) succeeds
\*   etc_rc:    what fread returns; etc_val: the 32 bits it read
HostFile(e, rc, v, o, erc, ev) ==
  [spl_errno |-> e, spl_rc |-> rc, spl_val |-> v, etc_open |-> o, etc_rc |-> erc, etc_val |-> ev]

HostEnvs ==
  { HostFile(ENOENT, 1, 0, FALSE, 0, 0), HostFile(0, 0, 0, FALSE, 0, 0),
    HostFile(0, EOF, 0, FALSE, 0, 0), HostFile(0, 1, 1, FALSE, 0, 0),
    HostFile(0, 1, 0, FALSE, 0, 0) }
  \cup
  { HostFile(0, 1, 0, TRUE, 0, 1), HostFile(0, 1, 0, TRUE, 1, 0), HostFile(0, 1, 0, TRUE, 1, 1) }

NoHost == HostFile(0, 1, 1, FALSE, 0, 0)

\* the set call that fails: none, the strdup() of zfs_set_prop_params, or
\* zfs_prop_set() of one property
NoFail == <<>>
StrdupFail == <<"strdup">>
BlobNames == {LDD_PREFIX \o <<"a">>, LDD_PREFIX \o <<"failover.node">>}
FailPoints ==
  {NoFail, StrdupFail, LDD_VERSION_PROP, LDD_FSNAME_PROP, LDD_MOUNTOPTS_PROP} \cup BlobNames

\* the user properties a dataset comes with
InitProps ==
  { << >>,
    [n \in {<<"other:", "x">>, LDD_VERSION_PROP, LDD_SVNAME_PROP, LDD_FSNAME_PROP} |->
       IF n = LDD_VERSION_PROP THEN <<ToString(ULONG_LIMIT)>> ELSE <<"old">>] }

\* ------------------------------------------------------------------- state
VARIABLES
  osd_zfs_setup,  \* the ready flag
  g_zfs,          \* the library handle: "NULL" or "libzfs"
  kind,           \* what the dataset is: "filesystem", "snapshot", "none"
  props,          \* the dataset's user properties: name -> text
  nopen,          \* dataset handles left open by the calls that returned (saturates at MaxLeak)
  pc,             \* "idle", "returned" (a call has returned; the caller has its
                  \* result), "params" (in the loop of zfs_set_prop_params), "crashed"
  mop,            \* the caller's mkfs_opts / mount_opts
  host,           \* the host id files the last zfs_check_hostid read
  fail,           \* the set call that fails in the current zfs_write_ldd
  token,          \* zfs_set_prop_params: the current token
  save_token,     \* zfs_set_prop_params: what strtok_r has left
  call,           \* the current or last call: its result and what it did
  rd0,            \* the record given to the last read, before it
  rd,             \* the record given to the last read, after it
  pre,            \* the properties before the last zfs_write_ldd
  wrote           \* the last zfs_write_ldd returned 0 and nothing changed the dataset since

vars == <<osd_zfs_setup, g_zfs, kind, props, nopen, pc, mop, host, fail,
          token, save_token, call, rd0, rd, pre, wrote>>

NewCall(op) ==
  [op |-> op, ret |-> 0, opens |-> 0, closes |-> 0,
   sets |-> <<>>, failed |-> NoFail, cmds |-> 0, chkrun |-> FALSE, chk |-> 0,
   fault |-> 0, bulk |-> "ok", mtw |-> FALSE, mt |-> 0, iters |-> 0]

Init ==
  /\ osd_zfs_setup = 0
  /\ g_zfs = "NULL"
  /\ kind \in {"filesystem", "snapshot", "none"}
  /\ props \in InitProps
  /\ (kind = "none") => props = << >>
  /\ (kind = "snapshot") => props # << >>
  /\ nopen = 0
  /\ pc = "idle"
  /\ mop \in Mops
  /\ host = NoHost
  /\ fail = NoFail
  /\ token = <<>>
  /\ save_token = <<>>
  /\ call = NewCall("none")
  /\ rd0 = NoLdd
  /\ rd = NoLdd
  /\ pre = << >>
  /\ wrote = FALSE

NoRead == rd0' = NoLdd /\ rd' = NoLdd
NoLoop == fail' = NoFail /\ token' = <<>> /\ save_token' = <<>>

\* ------------------------------------------------------- zfs_init, zfs_fini
MODPROBE_FAIL == 256

\* what zfs_init leaves in osd_zfs_setup
SetupAfterInit(ret) == IF ret = 0 THEN 1 ELSE osd_zfs_setup

zfs_init ==
  /\ pc = "idle"
  /\ \E first \in BOOLEAN, modprobe \in {0, MODPROBE_FAIL}, second \in BOOLEAN :
       LET g1 == IF first THEN "libzfs" ELSE "NULL"
           retry == g1 = "NULL" /\ modprobe = 0
           g2 == IF retry THEN (IF second THEN "libzfs" ELSE "NULL") ELSE g1
           ret == IF g1 # "NULL" THEN 0
                  ELSE IF modprobe # 0 THEN modprobe
                  ELSE IF g2 = "NULL" THEN EINVAL ELSE 0
       IN /\ g_zfs' = g2
          /\ osd_zfs_setup' = SetupAfterInit(ret)
          /\ call' = [NewCall("zfs_init") EXCEPT !.ret = ret]
  /\ pc' = "returned"
  /\ UNCHANGED <<kind, props, nopen, mop, host, fail, token, save_token, rd0, rd, pre, wrote>>

zfs_fini ==
  /\ pc = "idle"
  /\ g_zfs' = "NULL"
  /\ osd_zfs_setup' = 0
  /\ call' = NewCall("zfs_fini")
  /\ pc' = "returned"
  /\ UNCHANGED <<kind, props, nopen, mop, host, fail, token, save_token, rd0, rd, pre, wrote>>

\* a check with the test the wrong way round
osd_check_zfs_setup_inverted == IF osd_zfs_setup = 0 THEN 1 ELSE 0

\* osd_check_zfs_setup(): 1 when the library is ready
osd_check_zfs_setup == IF osd_zfs_setup = 1 THEN 1 ELSE 0

\* An entry point that hands g_zfs to libzfs while it is NULL dereferences
\* it: the process dies.
UsesNullHandle == osd_zfs_setup # 0 /\ g_zfs = "NULL"

NullHandleCrash ==
  /\ pc = "idle"
  /\ UsesNullHandle
  /\ pc' = "crashed"
  /\ UNCHANGED <<osd_zfs_setup, g_zfs, kind, props, nopen, mop, host, fail,
                 token, save_token, call, rd0, rd, pre, wrote>>

\* ------------------------------------------------------------ write side
\* zfs_prop_set(zhp, name, val): the call named by f fails and sets nothing
zfs_prop_set(p, name, val, f) ==
  IF name = f
  THEN [props |-> p, called |-> <<name>>, ret |-> LIBZFS_FAIL]
  ELSE [props |-> SetProp(p, name, val), called |-> <<name>>, ret |-> 0]

zfs_set_prop_int(p, prop, val, f) == zfs_prop_set(p, prop, FormatInt(val), f)

\* a zero-length value is not written and 0 is returned
zfs_set_prop_str(p, prop, val, f) ==
  IF Len(val) > 0
  THEN zfs_prop_set(p, prop, val, f)
  ELSE [props |-> p, called |-> <<>>, ret |-> 0]

\* the entry's zlpb_set_prop_fn on the field at its offset
zlpb_set_prop_fn(b, p, ldd, f) ==
  IF b.type = "int"
  THEN zfs_set_prop_int(p, b.zlpb_prop_name, ldd[b.zlpb_ldd_offset], f)
  ELSE zfs_set_prop_str(p, b.zlpb_prop_name, ldd[b.zlpb_ldd_offset], f)

\* a loop that goes on after a failure and returns the first failure's code
RECURSIVE BridgeSetAll(_, _, _, _, _)
BridgeSetAll(i, ldd, p, sets, f) ==
  IF i > NBridge THEN [props |-> p, sets |-> sets, ret |-> 0]
  ELSE LET r == zlpb_set_prop_fn(special_ldd_prop_params[i], p, ldd, f)
           rest == BridgeSetAll(i + 1, ldd, r.props, sets \o r.called, f)
       IN [rest EXCEPT !.ret = IF r.ret # 0 THEN r.ret ELSE rest.ret]

\* the loop of zfs_write_ldd over special_ldd_prop_params from entry i on:
\* the first failure ends it
RECURSIVE BridgeSet(_, _, _, _, _)
BridgeSet(i, ldd, p, sets, f) ==
  IF i > NBridge THEN [props |-> p, sets |-> sets, ret |-> 0]
  ELSE LET r == zlpb_set_prop_fn(special_ldd_prop_params[i], p, ldd, f) IN
       IF r.ret # 0
       THEN [props |-> r.props, sets |-> sets \o r.called, ret |-> r.ret]
       ELSE BridgeSet(i + 1, ldd, r.props, sets \o r.called, f)

\* the host id zfs_check_hostid ends up with, when it gets that far
HostId(h) ==
  IF h.spl_val # 0 THEN h.spl_val
  ELSE IF h.etc_open /\ h.etc_rc = 1 THEN h.etc_val
  ELSE 0

\* a check that does not look at MO_NOHOSTID_CHECK
zfs_check_hostid_noflag(m, h) ==
  IF ~HasFailnode(m.mo_ldd) THEN 0
  ELSE IF h.spl_errno # 0 THEN h.spl_errno
  ELSE IF h.spl_rc # 1 THEN h.spl_rc
  ELSE IF HostId(h) # 0 THEN 0
  ELSE EINVAL

zfs_check_hostid(m, h) ==
  IF ~HasFailnode(m.mo_ldd) THEN 0
  ELSE IF h.spl_errno # 0 THEN h.spl_errno
  ELSE IF h.spl_rc # 1 THEN h.spl_rc
  ELSE IF HostId(h) # 0 THEN 0
  ELSE IF "MO_NOHOSTID_CHECK" \in m.mo_flags THEN 0
  ELSE EINVAL

\* zfs_check_hostid reads the host's files only for a blob with the option
HostEnvsFor(m) == IF HasFailnode(m.mo_ldd) THEN HostEnvs ELSE {NoHost}

Opened(n) == IF n < MaxLeak THEN n + 1 ELSE MaxLeak

\* the failing set call as the loop of zfs_set_prop_params meets it: the
\* calls on the bridge entries are over
LoopFail(f) == IF f \in SpecialNames \/ f = StrdupFail THEN NoFail ELSE f
MaxIters == MaxTokens + ExtraIters

\* zfs_write_ldd(mop) up to the first token of zfs_set_prop_params
zfs_write_ldd ==
  /\ pc = "idle"
  /\ ~UsesNullHandle
  /\ \E f \in FailPoints, h \in HostEnvsFor(mop) :
     LET ldd == mop.mo_ldd
         c0 == NewCall("zfs_write_ldd")
         chk == zfs_check_hostid(mop, h)
         br == BridgeSet(1, ldd, props, <<>>, f)
         first == strtok_r(ldd.ldd_params, " ")
     IN /\ UNCHANGED <<osd_zfs_setup, g_zfs, kind, mop, rd0, rd>>
        /\ IF osd_check_zfs_setup = 0 \/ kind # "filesystem"
           THEN \* goto out with ret = EINVAL
                /\ call' = [c0 EXCEPT !.ret = EINVAL]
                /\ host' = NoHost
                /\ UNCHANGED <<fail, token, save_token>>
                /\ wrote' = FALSE /\ pre' = << >>
                /\ pc' = "returned"
                /\ UNCHANGED <<props, nopen>>
           ELSE IF chk # 0
           THEN \* goto out: the handle stays open
                /\ call' = [c0 EXCEPT !.ret = chk, !.opens = 1, !.chkrun = TRUE, !.chk = chk]
                /\ host' = h
                /\ nopen' = Opened(nopen)
                /\ UNCHANGED <<fail, token, save_token>>
                /\ wrote' = FALSE /\ pre' = << >>
                /\ pc' = "returned"
                /\ UNCHANGED props
           ELSE IF br.ret # 0
           THEN \* goto out_close
                /\ call' = [c0 EXCEPT !.ret = br.ret, !.opens = 1, !.closes = 1,
                                      !.chkrun = TRUE, !.sets = br.sets,
                                      !.failed = f]
                /\ host' = h
                /\ props' = br.props
                /\ UNCHANGED <<fail, token, save_token>>
                /\ wrote' = FALSE /\ pre' = << >>
                /\ pc' = "returned"
                /\ UNCHANGED nopen
           ELSE IF f = StrdupFail
           THEN /\ call' = [c0 EXCEPT !.ret = ENOMEM, !.opens = 1, !.closes = 1,
                                      !.chkrun = TRUE, !.sets = br.sets,
                                      !.failed = f]
                /\ host' = h
                /\ props' = br.props
                /\ UNCHANGED <<fail, token, save_token>>
                /\ wrote' = FALSE /\ pre' = << >>
                /\ pc' = "returned"
                /\ UNCHANGED nopen
           ELSE IF first.nil
           THEN \* no token: the loop is not entered
                /\ call' = [c0 EXCEPT !.ret = 0, !.opens = 1, !.closes = 1,
                                      !.chkrun = TRUE, !.sets = br.sets]
                /\ host' = h
                /\ props' = br.props
                /\ UNCHANGED <<fail, token, save_token>>
                /\ wrote' = TRUE /\ pre' = props
                /\ pc' = "returned"
                /\ UNCHANGED nopen
           ELSE /\ call' = [c0 EXCEPT !.opens = 1, !.chkrun = TRUE, !.sets = br.sets]
                /\ host' = h
                /\ props' = br.props
                /\ pc' = "params"
                /\ fail' = LoopFail(f)
                /\ token' = first.tok
                /\ save_token' = first.save
                /\ wrote' = FALSE /\ pre' = props
                /\ UNCHANGED nopen

\* one turn of the while loop of zfs_set_prop_params, and, when the loop
\* ends, the rest of zfs_write_ldd
ParamsStep ==
  /\ pc = "params"
  /\ LET key == strtok_r(token, "=")
         value == strtok_r(key.save, "=")
         prop_name == LDD_PREFIX \o key.tok
         r == zfs_prop_set(props, prop_name, value.tok, fail)
         next == strtok_r(save_token, " ")
         c1 == [call EXCEPT !.iters = IF call.iters < MaxIters THEN call.iters + 1 ELSE MaxIters]
     IN IF key.nil \/ value.nil
        THEN \* continue: token is not advanced; strtok has cut it after the key
             /\ token' = SubSeq(token, 1, key.end)
             /\ call' = c1
             /\ UNCHANGED <<props, nopen, pc, fail, save_token, wrote, pre>>
        ELSE IF r.ret # 0 \/ next.nil
        THEN \* break, or no token left: free, return, zfs_close
             /\ props' = r.props
             /\ call' = [c1 EXCEPT !.ret = r.ret, !.closes = 1,
                                   !.sets = call.sets \o r.called,
                                   !.failed = IF r.ret # 0 THEN fail ELSE NoFail]
             /\ pc' = "returned"
             /\ NoLoop
             /\ wrote' = (r.ret = 0)
             /\ pre' = IF r.ret = 0 THEN pre ELSE << >>
             /\ UNCHANGED nopen
        ELSE /\ props' = r.props
             /\ call' = [c1 EXCEPT !.sets = call.sets \o r.called]
             /\ token' = next.tok
             /\ save_token' = next.save
             /\ UNCHANGED <<nopen, pc, fail, wrote, pre>>
  /\ UNCHANGED <<osd_zfs_setup, g_zfs, kind, mop, host, rd0, rd>>

\* -------------------------------------------------------------- read side
\* zfs_get_prop_int / zfs_get_prop_str: [val: what the field holds after the
\* call, ret].  faulty: a lookup fails with an error that is not ENOENT.
zfs_get_prop_int(p, prop, cur, faulty) ==
  IF faulty THEN [val |-> cur, ret |-> EINVAL]
  ELSE IF prop \notin DOMAIN p THEN [val |-> cur, ret |-> ENOENT]
  ELSE LET c == strtoul(p[prop]) IN [val |-> c.val, ret |-> c.errno]

zfs_get_prop_str(p, prop, cur, faulty) ==
  IF faulty THEN [val |-> cur, ret |-> EINVAL]
  ELSE IF prop \notin DOMAIN p THEN [val |-> cur, ret |-> ENOENT]
  ELSE [val |-> p[prop], ret |-> 0]

\* the entry's zlpb_get_prop_fn on the field at its offset
zlpb_get_prop_fn(b, p, ldd, faulty) ==
  IF b.type = "int"
  THEN zfs_get_prop_int(p, b.zlpb_prop_name, ldd[b.zlpb_ldd_offset], faulty)
  ELSE zfs_get_prop_str(p, b.zlpb_prop_name, ldd[b.zlpb_ldd_offset], faulty)

\* a loop that stops at a property that is not found
ReadGoesOnFound(ret) == ret = 0

\* whether the loop of zfs_read_ldd goes on after an accessor returned ret
ReadGoesOn(ret) == ret = 0 \/ ret = ENOENT

\* the loop of zfs_read_ldd over special_ldd_prop_params from entry i on;
\* fault: the entry whose lookup fails (0: none)
RECURSIVE BridgeGet(_, _, _, _)
BridgeGet(i, ldd, p, fault) ==
  IF i > NBridge THEN [ldd |-> ldd, ret |-> 0, stop |-> 0]
  ELSE LET b == special_ldd_prop_params[i]
           r == zlpb_get_prop_fn(b, p, ldd, fault = i)
           l2 == [ldd EXCEPT ![b.zlpb_ldd_offset] = r.val]
       IN IF ReadGoesOn(r.ret)
          THEN BridgeGet(i + 1, l2, p, fault)
          ELSE [ldd |-> l2, ret |-> r.ret, stop |-> i]

zfs_is_special_ldd_prop_param(name) ==
  \E i \in 1..NBridge : name = special_ldd_prop_params[i].zlpb_prop_name

\* add_param(buf, key, val) of mount_utils.c: " key" "val" is appended when
\* it fits, and 1 is returned when it does not
add_param(buf, key, val) ==
  IF Len(buf) + 1 + Len(key) + Len(val) >= ParamsCap
  THEN [buf |-> buf, ret |-> 1]
  ELSE [buf |-> buf \o <<" ">> \o key \o val, ret |-> 0]

\* the properties zfs_get_prop_params appends to the blob
BulkNames(p) ==
  {n \in DOMAIN p : SubSeq(n, 1, Len(LDD_PREFIX)) = LDD_PREFIX
                    /\ ~zfs_is_special_ldd_prop_param(n)}

\* the orders in which the nvlist can hold the names of S
Orders(S) ==
  {o \in [1..Cardinality(S) -> S] : \A i, j \in 1..Cardinality(S) : o[i] = o[j] => i = j}

RECURSIVE BulkAppend(_, _, _)
BulkAppend(ord, p, param) ==
  IF ord = <<>> THEN [param |-> param, ret |-> 0]
  ELSE LET name == Head(ord)
           key == SubSeq(name, Len(LDD_PREFIX) + 1, Len(name)) \o <<"=">>
           r == add_param(param, key, p[name])
       IN IF r.ret # 0 THEN [param |-> r.buf, ret |-> r.ret]
          ELSE BulkAppend(Tail(ord), p, r.buf)

\* zfs_get_prop_params(zhp, param, len).  bulk: "noprops" (zfs_get_user_props
\* gives NULL), "nomem" (malloc fails), "lookup" (zfs_get_prop_str fails on
\* the first property), "ok".  The properties that are skipped leave nothing
\* behind, so ord orders only the ones that are appended.
zfs_get_prop_params(p, param, bulk, ord) ==
  IF bulk = "noprops" THEN [param |-> param, ret |-> ENOENT]
  ELSE IF bulk = "nomem" THEN [param |-> param, ret |-> ENOMEM]
  ELSE IF bulk = "lookup" /\ DOMAIN p # {} THEN [param |-> param, ret |-> EINVAL]
  ELSE BulkAppend(ord, p, param)

BulkEnvs == {"ok", "noprops", "nomem", "lookup"}
ReadEnvs ==
  {[fault |-> i, bulk |-> "ok"] : i \in {0, 1, 4, NBridge}} \cup {[fault |-> 0, bulk |-> b] : b \in BulkEnvs}

IsLustreEnvs == {e \in ReadEnvs : e.fault <= 1 /\ e.bulk \in {"ok", "nomem"}}

\* zfs_read_ldd(ds, ldd): [ldd, ret, opens, closes]
ReadLdd(ldd, e, ord) ==
  IF osd_check_zfs_setup = 0 THEN [ldd |-> ldd, ret |-> EINVAL, opens |-> 0, closes |-> 0]
  ELSE IF kind = "none" THEN [ldd |-> ldd, ret |-> EINVAL, opens |-> 0, closes |-> 0]
  ELSE LET br == BridgeGet(1, ldd, props, e.fault)
           bk == zfs_get_prop_params(props, br.ldd.ldd_params, e.bulk, ord)
           l2 == [br.ldd EXCEPT !.ldd_params = bk.param]
       IN IF br.stop # 0
          THEN [ldd |-> br.ldd, ret |-> br.ret, opens |-> 1, closes |-> 1]
          ELSE IF ~ReadGoesOn(bk.ret)
          THEN [ldd |-> l2, ret |-> bk.ret, opens |-> 1, closes |-> 1]
          ELSE [ldd |-> [l2 EXCEPT !.ldd_mount_type = LDD_MT_ZFS], ret |-> 0,
                opens |-> 1, closes |-> 1]

zfs_read_ldd ==
  /\ pc = "idle"
  /\ ~UsesNullHandle
  /\ \E prior \in LddPriors, e \in ReadEnvs, ord \in Orders(BulkNames(props)) :
       LET r == ReadLdd(prior, e, ord) IN
       /\ rd0' = prior
       /\ rd' = r.ldd
       /\ call' = [NewCall("zfs_read_ldd") EXCEPT !.ret = r.ret, !.opens = r.opens,
                     !.closes = r.closes,
                     !.fault = IF r.opens > 0 THEN e.fault ELSE 0,
                     !.bulk = IF r.opens > 0 THEN e.bulk ELSE "ok"]
  /\ pc' = "returned"
  /\ UNCHANGED <<osd_zfs_setup, g_zfs, kind, props, nopen, mop, host, fail, token,
                 save_token, pre, wrote>>

\* what zfs_is_lustre accepts of the record zfs_read_ldd filled
IsLustre(r) == r.ret = 0 /\ r.ldd.ldd_config_ver > 0 /\ Len(r.ldd.ldd_svname) > 0

\* zfs_is_lustre(ds, &mount_type): tmp_ldd is not initialised, so it holds
\* whatever the stack held
zfs_is_lustre ==
  /\ pc = "idle"
  /\ ~UsesNullHandle
  /\ \E tmp_ldd \in LddPriors, e \in IsLustreEnvs, ord \in Orders(BulkNames(props)) :
       LET r == ReadLdd(tmp_ldd, e, ord)
           c0 == NewCall("zfs_is_lustre")
       IN IF osd_zfs_setup = 0
          THEN /\ call' = c0
               /\ rd0' = NoLdd /\ rd' = NoLdd
          ELSE /\ rd0' = tmp_ldd
               /\ rd' = r.ldd
               /\ call' = [c0 EXCEPT !.ret = IF IsLustre(r) THEN 1 ELSE 0,
                             !.opens = r.opens, !.closes = r.closes,
                             !.fault = IF r.opens > 0 THEN e.fault ELSE 0,
                             !.bulk = IF r.opens > 0 THEN e.bulk ELSE "ok",
                             !.mtw = IsLustre(r),
                             !.mt = IF IsLustre(r) THEN r.ldd.ldd_mount_type ELSE 0]
  /\ pc' = "returned"
  /\ UNCHANGED <<osd_zfs_setup, g_zfs, kind, props, nopen, mop, host, fail, token,
                 save_token, pre, wrote>>

\* ----------------------------------------------------- the other entry points
zfs_label_lustre ==
  /\ pc = "idle"
  /\ ~UsesNullHandle
  /\ \E f \in {NoFail, LDD_SVNAME_PROP} :
       LET c0 == NewCall("zfs_label_lustre")
           r == zfs_set_prop_str(props, LDD_SVNAME_PROP, mop.mo_ldd.ldd_svname, f)
       IN IF osd_check_zfs_setup = 0 \/ kind # "filesystem"
          THEN /\ call' = [c0 EXCEPT !.ret = EINVAL]
               /\ UNCHANGED <<props, wrote, pre>>
          ELSE /\ call' = [c0 EXCEPT !.ret = r.ret, !.opens = 1, !.closes = 1,
                             !.sets = r.called,
                             !.failed = IF r.ret # 0 THEN f ELSE NoFail]
               /\ props' = r.props
               /\ wrote' = FALSE /\ pre' = << >>
  /\ pc' = "returned"
  /\ UNCHANGED <<osd_zfs_setup, g_zfs, kind, nopen, mop, host, fail, token,
                 save_token, rd0, rd>>

\* zfs_prepare_lustre: valid is zfs_name_valid(mo_device), slash is whether
\* the name has a '/'
zfs_prepare_lustre ==
  /\ pc = "idle"
  /\ \E valid \in BOOLEAN, slash \in BOOLEAN :
       call' = [NewCall("zfs_prepare_lustre") EXCEPT
                  !.ret = IF osd_check_zfs_setup = 0 THEN EINVAL
                          ELSE IF ~valid THEN EINVAL
                          ELSE IF ~slash THEN EINVAL
                          ELSE 0]
  /\ pc' = "returned"
  /\ UNCHANGED <<osd_zfs_setup, g_zfs, kind, props, nopen, mop, host, fail, token,
                 save_token, rd0, rd, pre, wrote>>

zfs_tune_lustre ==
  /\ pc = "idle"
  /\ call' = [NewCall("zfs_tune_lustre") EXCEPT
                !.ret = IF osd_check_zfs_setup = 0 THEN EINVAL ELSE 0]
  /\ pc' = "returned"
  /\ UNCHANGED <<osd_zfs_setup, g_zfs, kind, props, nopen, mop, host, fail, token,
                 save_token, rd0, rd, pre, wrote>>

zfs_enable_quota ==
  /\ pc = "idle"
  /\ call' = [NewCall("zfs_enable_quota") EXCEPT !.ret = ENOSYS]
  /\ pc' = "returned"
  /\ UNCHANGED <<osd_zfs_setup, g_zfs, kind, props, nopen, mop, host, fail, token,
                 save_token, rd0, rd, pre, wrote>>

\* ---------------------------------------------------------- zfs_make_lustre
CMD_FAIL == 1
FILE_CREATE_FAIL == 5

\* a vdev: "mirror" (a reserved name), "/abs" (an absolute path) or "rel";
\* access is the errno of access(vdev, F_OK), 0 when the file is there
Vdev(name, access) == [name |-> name, access |-> access]
VdevLists ==
  { <<>>, <<Vdev("mirror", 0)>>, <<Vdev("rel", 0)>>, <<Vdev("/abs", 0)>>,
    <<Vdev("/abs", EACCES)>>, <<Vdev("/abs", ENOENT)>>,
    <<Vdev("mirror", 0), Vdev("/abs", ENOENT)>> }

\* what zfs_make_lustre meets:
\*   oom: the allocation that fails ("none", "pool", "mkfs_cmd", "mkfs_tmp")
\*   destroy: what zfs_destroy returns;  pool_found: zpool_open finds the pool
\*   given, vdevs: mo_pool_vdevs is not NULL, and its list
\*   device_kb: mo_device_kb;  file_create: what file_create returns
\*   zpool_create, zfs_create: what run_command returns for the two commands
BaseEnv ==
  [oom |-> "none", destroy |-> 0, pool_found |-> TRUE, given |-> FALSE,
   vdevs |-> <<>>, device_kb |-> 1, file_create |-> 0, zpool_create |-> 0,
   zfs_create |-> 0]

MakeEnvs ==
  {BaseEnv, [BaseEnv EXCEPT !.destroy = LIBZFS_FAIL], [BaseEnv EXCEPT !.zfs_create = CMD_FAIL],
   [BaseEnv EXCEPT !.pool_found = FALSE]}
  \cup {[BaseEnv EXCEPT !.oom = o] : o \in {"pool", "mkfs_cmd", "mkfs_tmp"}}
  \cup {[BaseEnv EXCEPT !.pool_found = FALSE, !.given = TRUE, !.vdevs = l] : l \in VdevLists}
  \cup {[BaseEnv EXCEPT !.pool_found = FALSE, !.given = TRUE, !.vdevs = l, !.device_kb = 0] :
          l \in {<<Vdev("/abs", ENOENT)>>}}
  \cup {[BaseEnv EXCEPT !.pool_found = FALSE, !.given = TRUE, !.vdevs = l, !.file_create = FILE_CREATE_FAIL] :
          l \in {<<Vdev("/abs", ENOENT)>>}}
  \cup {[BaseEnv EXCEPT !.pool_found = FALSE, !.given = TRUE, !.vdevs = l, !.zpool_create = CMD_FAIL] :
          l \in {<<Vdev("mirror", 0)>>}}

zfs_create_vdev(e, vdev) ==
  IF vdev.name # "/abs" THEN 0
  ELSE IF vdev.access = 0 THEN 0
  ELSE IF vdev.access # ENOENT THEN vdev.access
  ELSE IF e.device_kb = 0 THEN EINVAL
  ELSE e.file_create

\* the while loop over mo_pool_vdevs: the first vdev that fails ends it
RECURSIVE CreateVdevs(_, _)
CreateVdevs(e, l) ==
  IF l = <<>> THEN 0
  ELSE IF zfs_create_vdev(e, Head(l)) # 0 THEN zfs_create_vdev(e, Head(l))
  ELSE CreateVdevs(e, Tail(l))

\* zfs_make_lustre(mop): [ret, opens, closes, cmds, chkrun, chk, kind, props]
MakeLustre(m, h, e) ==
  LET r0 == [ret |-> EINVAL, opens |-> 0, closes |-> 0, cmds |-> 0,
             chkrun |-> FALSE, chk |-> 0, kind |-> kind, props |-> props]
      chk == zfs_check_hostid(m, h)
      r1 == [r0 EXCEPT !.chkrun = TRUE, !.chk = chk]
      reformat == "MO_FORCEFORMAT" \in m.mo_flags /\ kind = "filesystem"
      r2 == IF reformat THEN [r1 EXCEPT !.opens = 1, !.closes = 1] ELSE r1
      r3 == IF reformat THEN [r2 EXCEPT !.kind = "none", !.props = << >>] ELSE r2
      pool_exists == r3.kind # "none" \/ e.pool_found
      mkpool == e.given /\ ~pool_exists
      vd == CreateVdevs(e, e.vdevs)
      r4 == IF mkpool THEN [r3 EXCEPT !.cmds = 1] ELSE r3
      \* zfs create fails on a dataset that is there and in a pool that is not
      created == IF r3.kind # "none" \/ ~(pool_exists \/ mkpool) THEN CMD_FAIL
                 ELSE e.zfs_create
  IN IF osd_check_zfs_setup = 0 THEN r0
     ELSE IF (m.mo_ldd.ldd_flags \div LDD_F_NEED_INDEX) % 2 = 1 THEN r0
     ELSE IF chk # 0 THEN [r1 EXCEPT !.ret = chk]
     ELSE IF e.oom # "none" THEN [r1 EXCEPT !.ret = ENOMEM]
     ELSE IF reformat /\ e.destroy # 0 THEN [r2 EXCEPT !.ret = e.destroy]
     ELSE IF mkpool /\ vd # 0 THEN [r3 EXCEPT !.ret = vd]
     ELSE IF mkpool /\ e.zpool_create # 0 THEN [r4 EXCEPT !.ret = e.zpool_create]
     ELSE IF created # 0 THEN [r4 EXCEPT !.ret = created, !.cmds = r4.cmds + 1]
     ELSE [r4 EXCEPT !.ret = 0, !.cmds = r4.cmds + 1, !.kind = "filesystem", !.props = << >>]

zfs_make_lustre ==
  /\ pc = "idle"
  /\ ~UsesNullHandle
  /\ \E h \in HostEnvsFor(mop), e \in MakeEnvs :
       LET r == MakeLustre(mop, h, e) IN
       /\ call' = [NewCall("zfs_make_lustre") EXCEPT !.ret = r.ret, !.opens = r.opens,
                     !.closes = r.closes, !.cmds = r.cmds, !.chkrun = r.chkrun,
                     !.chk = r.chk]
       /\ host' = IF r.chkrun THEN h ELSE NoHost
       /\ kind' = r.kind
       /\ props' = r.props
       /\ wrote' = (wrote /\ r.kind = kind /\ r.props = props)
       /\ pre' = IF wrote /\ r.kind = kind /\ r.props = props THEN pre ELSE << >>
  /\ pc' = "returned"
  /\ UNCHANGED <<osd_zfs_setup, g_zfs, nopen, mop, fail, token, save_token, rd0, rd>>

\* the caller takes the result and goes on
Return ==
  /\ pc = "returned"
  /\ pc' = "idle"
  /\ call' = NewCall("none")
  /\ host' = NoHost
  /\ NoRead
  /\ UNCHANGED <<osd_zfs_setup, g_zfs, kind, props, nopen, mop, fail, token,
                 save_token, pre, wrote>>

Next ==
  \/ Return
  \/ zfs_init
  \/ zfs_fini
  \/ NullHandleCrash
  \/ zfs_write_ldd
  \/ ParamsStep
  \/ zfs_read_ldd
  \/ zfs_is_lustre
  \/ zfs_label_lustre
  \/ zfs_prepare_lustre
  \/ zfs_tune_lustre
  \/ zfs_enable_quota
  \/ zfs_make_lustre

Spec == Init /\ [][Next]_vars

\* ================================================================== claims
IsPrefix(a, b) == Len(a) <= Len(b) /\ SubSeq(b, 1, Len(a)) = a

\* the pieces of text s between the delimiters d, the empty ones dropped
RECURSIVE Split(_, _)
Split(s, d) ==
  IF s = <<>> THEN <<>>
  ELSE IF Head(s) = d THEN Split(Tail(s), d)
  ELSE LET n == CHOOSE k \in 1..Len(s) :
                  /\ \A j \in 1..k : s[j] # d
                  /\ (k = Len(s) \/ s[k + 1] = d)
       IN <<SubSeq(s, 1, n)>> \o Split(SubSeq(s, n + 1, Len(s)), d)

\* a token is well formed when it has a key, an '=' and a value
WellFormed(t) == Len(Split(t, "=")) >= 2
TokensOf(blob) == Split(blob, " ")

\* the set calls a complete zfs_write_ldd of ldd makes, in order
ExpectedBridge(ldd) ==
  SelectSeq([i \in 1..NBridge |->
               LET b == special_ldd_prop_params[i] IN
               [name |-> b.zlpb_prop_name,
                val |-> IF b.type = "int" THEN FormatInt(ldd[b.zlpb_ldd_offset])
                        ELSE ldd[b.zlpb_ldd_offset]]],
            LAMBDA x : x.val # <<>>)
ExpectedTokens(ldd) ==
  LET wf == SelectSeq(TokensOf(ldd.ldd_params), WellFormed) IN
  [i \in 1..Len(wf) |->
     [name |-> LDD_PREFIX \o Split(wf[i], "=")[1], val |-> Split(wf[i], "=")[2]]]
ExpectedSets(ldd) == ExpectedBridge(ldd) \o ExpectedTokens(ldd)
NamesOf(q) == [i \in 1..Len(q) |-> q[i].name]

Returned(op) == pc = "returned" /\ call.op = op

\* ---- C1
\* C1: every dataset handle opened by zfs_write_ldd, zfs_read_ldd or
\* zfs_label_lustre is closed before the call returns, on every exit path,
\* and no handle is left open after any sequence of these calls.
C1_HandlesClosed ==
  /\ (pc = "returned" /\ call.op \in {"zfs_write_ldd", "zfs_read_ldd", "zfs_label_lustre"})
        => call.closes = call.opens
  /\ (pc \in {"idle", "returned"}) => nopen = 0

\* ---- C2
\* C2: zfs_set_prop_params returns for every blob: each turn of its loop
\* uses up one token, so while it runs it has made fewer turns than the blob
\* has tokens; and when no property-set call fails it returns 0 with one
\* property set for every well formed token, those after a malformed one
\* included.
C2_ParamsReturns ==
  /\ (pc = "params") => call.iters < Len(TokensOf(mop.mo_ldd.ldd_params))
  /\ (Returned("zfs_write_ldd") /\ call.iters > 0 /\ call.failed = NoFail)
        => /\ call.ret = 0
           /\ call.sets = NamesOf(ExpectedSets(mop.mo_ldd))

\* ---- C3
\* the spl_hostid parameter was read as zero and /etc/hostid gave no other id
ZeroHostId(h) == h.spl_errno = 0 /\ h.spl_rc = 1 /\ h.spl_val = 0
                 /\ ~(h.etc_open /\ h.etc_rc = 1 /\ h.etc_val # 0)

\* a zfs_write_ldd that found the library ready and opened the dataset
WriteOpened == call.op = "zfs_write_ldd" /\ call.opens = 1 /\ pc \in {"params", "returned"}

\* C3: in zfs_write_ldd, with the failover-node option in the blob and a zero
\* host id: without MO_NOHOSTID_CHECK the call returns EINVAL and sets no
\* property; with it the check returns 0 and the bridge properties are
\* written.  Without the option in the blob the check returns 0 whatever the
\* host's files hold.
C3_HostidCheck ==
  WriteOpened =>
    /\ (HasFailnode(mop.mo_ldd) /\ ZeroHostId(host) /\ "MO_NOHOSTID_CHECK" \notin mop.mo_flags)
          => (pc = "returned" /\ call.ret = EINVAL /\ call.sets = <<>>)
    /\ (HasFailnode(mop.mo_ldd) /\ ZeroHostId(host) /\ "MO_NOHOSTID_CHECK" \in mop.mo_flags)
          => /\ call.chk = 0
             /\ call.sets # <<>>
             /\ (call.failed = NoFail =>
                   IsPrefix(NamesOf(ExpectedBridge(mop.mo_ldd)), call.sets))
    /\ ~HasFailnode(mop.mo_ldd)
          => /\ call.chk = 0
             /\ \A h \in HostEnvs : zfs_check_hostid(mop, h) = 0

C3_Witness ==
  /\ Returned("zfs_write_ldd") /\ call.opens = 1
  /\ HasFailnode(mop.mo_ldd) /\ ZeroHostId(host) /\ host.etc_open
  /\ "MO_NOHOSTID_CHECK" \in mop.mo_flags
  /\ call.ret = 0
  /\ LDD_PREFIX \o <<"failover.node">> \in DOMAIN props

\* ---- C4
HasNoLustreProps == \A n \in DOMAIN props : SubSeq(n, 1, Len(LDD_PREFIX)) # LDD_PREFIX

\* the dataset's version parses to a positive number, its svname is not
\* empty, and nothing else stands in the way of the read
ReadableLustre ==
  /\ LDD_VERSION_PROP \in DOMAIN props
  /\ strtoul(props[LDD_VERSION_PROP]).errno = 0
  /\ strtoul(props[LDD_VERSION_PROP]).val > 0
  /\ LDD_SVNAME_PROP \in DOMAIN props
  /\ props[LDD_SVNAME_PROP] # <<>>
  /\ \A i \in 1..NBridge :
       LET b == special_ldd_prop_params[i] IN
       (b.type = "int" /\ b.zlpb_prop_name \in DOMAIN props)
         => strtoul(props[b.zlpb_prop_name]).errno = 0
  /\ call.fault = 0 /\ call.bulk = "ok"
  /\ \A ord \in Orders(BulkNames(props)) :
       zfs_get_prop_params(props, rd0.ldd_params, "ok", ord).ret = 0

\* C4: zfs_is_lustre returns 0 for every dataset with none of the lustre:
\* properties, whatever its scratch record held; it returns 1 with
\* *mount_type = LDD_MT_ZFS for a dataset with a positive lustre:version and
\* a non-empty lustre:svname; *mount_type is written only when it returns 1.
C4_IsLustre ==
  (Returned("zfs_is_lustre") /\ osd_zfs_setup = 1) =>
    /\ HasNoLustreProps => call.ret = 0
    /\ (call.opens = 1 /\ ReadableLustre) => (call.ret = 1 /\ call.mt = LDD_MT_ZFS)
    /\ call.mtw => call.ret = 1

\* ---- C5
\* C5: after a zfs_write_ldd that returned 0, a zfs_read_ldd of the same
\* dataset that returns 0 yields, for every bridge field, the value written;
\* a string field written empty yields what the property held before the
\* write, or the reader's prior field when the property is absent.
C5_RoundTrip ==
  (Returned("zfs_read_ldd") /\ wrote /\ call.ret = 0) =>
    \A i \in 1..NBridge :
      LET b == special_ldd_prop_params[i]
          fld == b.zlpb_ldd_offset
          w == mop.mo_ldd[fld]
      IN IF b.type = "int" \/ w # <<>>
         THEN rd[fld] = w
         ELSE rd[fld] = IF b.zlpb_prop_name \in DOMAIN pre
                        THEN pre[b.zlpb_prop_name] ELSE rd0[fld]

\* ---- C6
\* what the accessor of bridge entry i returns in the last read
AccRet(i) ==
  LET b == special_ldd_prop_params[i] IN
  IF call.fault = i THEN EINVAL
  ELSE IF b.zlpb_prop_name \notin DOMAIN props THEN ENOENT
  ELSE IF b.type = "int" THEN strtoul(props[b.zlpb_prop_name]).errno
  ELSE 0

\* the value the accessor of entry i converts the property to
AccVal(i) ==
  LET b == special_ldd_prop_params[i] IN
  IF b.type = "int" THEN strtoul(props[b.zlpb_prop_name]).val
  ELSE props[b.zlpb_prop_name]

BadEntries == {i \in 1..NBridge : AccRet(i) \notin {0, ENOENT}}
FirstBad == CHOOSE i \in BadEntries : \A j \in BadEntries : i <= j

\* what the bulk codec returns in the last read: the order of the
\* properties does not change it
BulkRet ==
  zfs_get_prop_params(props, rd0.ldd_params, call.bulk,
                      CHOOSE o \in Orders(BulkNames(props)) : TRUE).ret

FieldOf(i) == special_ldd_prop_params[i].zlpb_ldd_offset

\* C6: a zfs_read_ldd whose dataset opens returns 0 and sets ldd_mount_type
\* to LDD_MT_ZFS exactly when no accessor and no bulk step returns an error
\* other than ENOENT; a property that is not found leaves its field as it
\* was and the next entry is read; the first other error stops the read, is
\* the result, and ldd_mount_type stays as it was.
C6_ReadErrors ==
  (Returned("zfs_read_ldd") /\ call.opens = 1) =>
    /\ (call.ret = 0) <=> (BadEntries = {} /\ BulkRet \in {0, ENOENT})
    /\ (call.ret = 0) => rd.ldd_mount_type = LDD_MT_ZFS
    /\ (call.ret # 0) => rd.ldd_mount_type = rd0.ldd_mount_type
    /\ (BadEntries # {}) =>
         /\ call.ret = AccRet(FirstBad)
         /\ \A j \in (FirstBad + 1)..NBridge : rd[FieldOf(j)] = rd0[FieldOf(j)]
         /\ rd.ldd_params = rd0.ldd_params
    /\ (BadEntries = {} /\ BulkRet \notin {0, ENOENT}) => call.ret = BulkRet
    /\ \A i \in 1..NBridge :
         (BadEntries = {} \/ i < FirstBad) =>
           /\ (AccRet(i) = ENOENT) => rd[FieldOf(i)] = rd0[FieldOf(i)]
           /\ (AccRet(i) = 0) => rd[FieldOf(i)] = AccVal(i)

C6_Witness ==
  /\ Returned("zfs_read_ldd") /\ call.opens = 1 /\ call.ret = 0
  /\ LDD_UUID_PROP \notin DOMAIN props
  /\ rd0.ldd_uuid # <<>> /\ rd.ldd_uuid = rd0.ldd_uuid
  /\ LDD_MOUNTOPTS_PROP \in DOMAIN props
  /\ rd.ldd_mount_opts = props[LDD_MOUNTOPTS_PROP]
  /\ rd.ldd_mount_opts # rd0.ldd_mount_opts
  /\ rd0.ldd_mount_type # LDD_MT_ZFS /\ rd.ldd_mount_type = LDD_MT_ZFS

\* ---- C7
\* the place of the last call on sets[k]'s property among the first n calls
LastSet(sets, k, n) == CHOOSE j \in k..n : sets[j] = sets[k] /\ \A l \in (j + 1)..n : sets[l] # sets[k]

\* C7: zfs_write_ldd issues its property-set calls in the order of the
\* bridge table and then of the blob's tokens; after the first call that
\* fails no other is issued, the properties set before it stay set, and the
\* call returns that failure's code.
C7_SetOrder ==
  (WriteOpened /\ call.chk = 0) =>
    LET exp == ExpectedSets(mop.mo_ldd)
        n == Len(call.sets)
    IN /\ IsPrefix(call.sets, NamesOf(exp))
       /\ (call.failed \notin {NoFail, StrdupFail}) =>
            /\ pc = "returned"
            /\ n > 0 /\ call.sets[n] = call.failed
            /\ call.ret = LIBZFS_FAIL
            /\ \A k \in 1..(n - 1) :
                 /\ call.sets[k] \in DOMAIN props
                 /\ props[call.sets[k]] = exp[LastSet(call.sets, k, n - 1)].val
       /\ (pc = "returned" /\ call.failed = NoFail) =>
            /\ call.ret = 0
            /\ \A k \in 1..n :
                 /\ call.sets[k] \in DOMAIN props
                 /\ props[call.sets[k]] = exp[LastSet(call.sets, k, n)].val

C7_Witness ==
  /\ Returned("zfs_write_ldd")
  /\ call.failed \in BlobNames
  /\ call.ret = LIBZFS_FAIL
  /\ Len(call.sets) > Len(ExpectedBridge(mop.mo_ldd))
  /\ Len(call.sets) < Len(ExpectedSets(mop.mo_ldd))

\* ---- C8
EntryPoints ==
  {"zfs_write_ldd", "zfs_read_ldd", "zfs_is_lustre", "zfs_make_lustre",
   "zfs_enable_quota", "zfs_prepare_lustre", "zfs_tune_lustre", "zfs_label_lustre"}

\* a call of an entry point made while the ready flag was 0 has returned
NotReadyCall == pc = "returned" /\ call.op \in EntryPoints /\ osd_zfs_setup = 0

DidNothing == call.opens = 0 /\ call.sets = <<>> /\ call.cmds = 0 /\ ~call.mtw

\* C8: while the ready flag is 0 every public entry point fails at once with
\* EINVAL, without opening a dataset, setting a property or running a
\* command.
C8_AllEinval == NotReadyCall => (call.ret = EINVAL /\ DidNothing)

\* C8, amended: while the ready flag is 0, zfs_write_ldd, zfs_read_ldd,
\* zfs_make_lustre, zfs_prepare_lustre, zfs_tune_lustre and zfs_label_lustre
\* return EINVAL, zfs_is_lustre returns 0 (false) and zfs_enable_quota, which
\* never looks at the flag, returns ENOSYS; none of them opens a dataset,
\* sets a property or runs a command.
C8_NotReady ==
  NotReadyCall =>
    /\ DidNothing
    /\ call.ret = IF call.op = "zfs_is_lustre" THEN 0
                  ELSE IF call.op = "zfs_enable_quota" THEN ENOSYS
                  ELSE EINVAL

\* the library was ready (a write succeeded), zfs_fini ran, and a dataset is
\* there for the call to open
C8_Witness ==
  /\ NotReadyCall /\ wrote /\ kind = "filesystem"
  /\ call.op = "zfs_read_ldd" /\ call.ret = EINVAL /\ DidNothing

\* ---- C9
\* C9: after any sequence of zfs_init and zfs_fini the ready flag is 1 only
\* if g_zfs is not NULL, and a zfs_init that returns non-zero leaves the flag
\* at 0.
C9_ReadyHasHandle ==
  /\ (osd_zfs_setup = 1) => g_zfs # "NULL"
  /\ (Returned("zfs_init") /\ call.ret # 0) => osd_zfs_setup = 0

\* ---- C10
\* C10: when zfs_check_hostid returns 0 for a blob with the failover-node
\* option and MO_NOHOSTID_CHECK is not set, a non-zero host id was read from
\* spl_hostid or from /etc/hostid.
C10_HostidRead ==
  (pc \in {"params", "returned"} /\ call.op \in {"zfs_write_ldd", "zfs_make_lustre"}
   /\ call.chkrun /\ call.chk = 0
   /\ HasFailnode(mop.mo_ldd) /\ "MO_NOHOSTID_CHECK" \notin mop.mo_flags) =>
    /\ host.spl_errno = 0
    /\ host.spl_rc = 1
    /\ (host.spl_val # 0 \/ (host.etc_open /\ host.etc_rc = 1 /\ host.etc_val # 0))
====
